---- MODULE Spec2Model ----
(***************************************************************************)
(* WireGuard keys manager (service/wgkeys/manager.go) of the IVPN daemon:  *)
(* the rotation loop goroutine, the mutex-guarded generateKeys attempt and *)
(* the non-blocking stop signal, together with the part of the             *)
(* preferences store (service/preferences/preferences.go) the manager      *)
(* reads and writes through its IWgKeysChangeReceiver.                     *)
(*                                                                         *)
(* Time is counted in seconds since the zero time.Time.  Keys are         *)
(* numbered: NoKey is the empty string, InitKey a key provisioned before   *)
(* the daemon started, and every call of wireguard.GenerateKeys yields the *)
(* next number.                                                            *)
(***************************************************************************)
EXTENDS Integers, Sequences, FiniteSets, TLC

\* ---------------------------------------------------------------- bounds
MaxLoops == 2
MaxKeys == 2
MaxAdvances == 2
MaxCalls == 3
MaxLogins == 1

\* ------------------------------------------------------ program constants
Second == 1
Hour == 3600
DefaultWGKeysInterval == 604800

\* ------------------------------------------------------------ input sets
Callers == {1, 2}
Loops == 3..(2 + MaxLoops)
Procs == Callers \cup Loops
NoProc == 0

NoKey == 0
InitKey == 1

NilReceiver == 0
Receivers == {1, 2}

FirstSession == 1
Intervals == {-Second, 0, Hour}
\* the clock when the daemon starts, long after the zero time.Time{}
Now0 == 300 * Hour
Deltas == {Hour}
IPs == {1, 2}
NoIP == 0
\* how long before the daemon started the key on disk was generated
KeyAges == {0, (2 * Hour) \div 3}
\* a channel made with room for one signal
StopChanCap_buffered == Cardinality({"signal"})

\* make(chan struct{}): the capacity of m._stopKeysRotation
StopChanCap == 0

VARIABLES
  service,            \* m._service: NilReceiver or the bound receiver
  mutex,              \* m._mutex: the proc holding it, or NoProc
  prefs,              \* Preferences.Session behind the receiver
  now,                \* time.Now()
  advances,           \* how often the clock was advanced
  keysMade,           \* how many key pairs wireguard.GenerateKeys produced
  spawned,            \* how many rotation goroutines were started
  calls,              \* how many calls the callers made
  logins,             \* how often the session changed
  pc,                 \* position of every proc
  op,                 \* the entry point a proc is executing
  frame,              \* locals of generateKeys
  view,               \* history: the store as it was at a proc's latest read
  isLastUpdateFailed, \* local of the rotation goroutine
  waitInterval,       \* local of the rotation goroutine
  deadline,           \* when the goroutine's time.After channel fires
  lastRet,            \* history: the latest return of a call / tick
  lastIssue,          \* history: the latest api.WireGuardKeySet call
  serverKey,          \* the key the API server holds for the session's device
  stopQueued,         \* signals buffered in m._stopKeysRotation
  stopSeen,           \* history: goroutines in their select or in a tick
                      \* when StopKeysRotation was called from outside
  lateTick            \* history: goroutines that ticked after such a call

vars == <<service, mutex, prefs, now, advances, keysMade, spawned,
          calls, logins,
          pc, op, frame, view, isLastUpdateFailed, waitInterval, deadline,
          lastRet, lastIssue, serverKey, stopQueued, stopSeen, lateTick>>

\* ------------------------------------------------------------- receiver
\* IWgKeysChangeReceiver.WireGuardGetKeys
WireGuardGetKeys ==
  [session |-> prefs.Session, activePublicKey |-> prefs.WGPublicKey,
   lastUpdate |-> prefs.WGKeyGenerated, interval |-> prefs.WGKeysRegenInerval]

\* SessionStatus.updateWgCredentials: the key material and its timestamp
updateWgCredentials(s, pub, priv, ip, tnow) ==
  IF pub = NoKey \/ priv = NoKey \/ ip = NoIP
  THEN [s EXCEPT !.WGPublicKey = NoKey, !.WGPrivateKey = NoKey,
                 !.WGLocalIP = NoIP, !.WGKeyGenerated = 0]
  ELSE [s EXCEPT !.WGPublicKey = pub, !.WGPrivateKey = priv,
                 !.WGLocalIP = ip, !.WGKeyGenerated = tnow]

\* IWgKeysChangeReceiver.WireGuardSaveNewKeys
WireGuardSaveNewKeys(pub, priv, ip, tnow) ==
  updateWgCredentials(prefs, pub, priv, ip, tnow)

\* Preferences.setSession
setSession(session, pub, priv, ip, tnow) ==
  LET kept == prefs.WGKeysRegenInerval
      fresh == [Session |-> session, WGPublicKey |-> NoKey, WGPrivateKey |-> NoKey,
                WGLocalIP |-> NoIP, WGKeyGenerated |-> 0,
                WGKeysRegenInerval |->
                  IF kept <= 0 THEN DefaultWGKeysInterval ELSE kept]
  IN updateWgCredentials(fresh, pub, priv, ip, tnow)

\* ---------------------------------------------------------- generateKeys
EmptyFrame ==
  [session |-> 0, activePublicKey |-> NoKey, lastUpdate |-> 0, interval |-> 0,
   pub |-> NoKey, priv |-> NoKey, localIP |-> NoIP]

\* the store and the clock as they are
NoView == [session |-> 0, key |-> NoKey, lastUpdate |-> 0, interval |-> 0, at |-> 0]
View ==
  [session |-> prefs.Session, key |-> prefs.WGPublicKey,
   lastUpdate |-> prefs.WGKeyGenerated, interval |-> prefs.WGKeysRegenInerval,
   at |-> now]

NoIssue ==
  [n |-> 0, by |-> NoProc, only |-> FALSE, session |-> 0, newKey |-> NoKey,
   oldKey |-> NoKey, conn |-> FALSE, ok |-> FALSE, ip |-> NoIP, rd |-> NoView]

\* isNecessaryUpdate with the expiry test made with >= in place of After
isNecessaryUpdate_ge(onlyUpdateIfNecessary, interval, activePublicKey, lastUpdate, tnow) ==
  IF ~onlyUpdateIfNecessary THEN [upd |-> TRUE, err |-> FALSE]
  ELSE IF interval <= 0 THEN [upd |-> FALSE, err |-> TRUE]
  ELSE IF activePublicKey # NoKey /\ lastUpdate + interval >= tnow
       THEN [upd |-> FALSE, err |-> FALSE]
  ELSE [upd |-> TRUE, err |-> FALSE]

\* isNecessaryUpdate without the test of onlyUpdateIfNecessary
isNecessaryUpdate_noforce(onlyUpdateIfNecessary, interval, activePublicKey, lastUpdate, tnow) ==
  IF interval <= 0 THEN [upd |-> FALSE, err |-> TRUE]
  ELSE IF activePublicKey # NoKey /\ lastUpdate + interval > tnow
       THEN [upd |-> FALSE, err |-> FALSE]
  ELSE [upd |-> TRUE, err |-> FALSE]

\* isNecessaryUpdate with the missing key looked at before the interval
isNecessaryUpdate_keyfirst(onlyUpdateIfNecessary, interval, activePublicKey, lastUpdate, tnow) ==
  IF ~onlyUpdateIfNecessary THEN [upd |-> TRUE, err |-> FALSE]
  ELSE IF activePublicKey = NoKey THEN [upd |-> TRUE, err |-> FALSE]
  ELSE IF interval <= 0 THEN [upd |-> FALSE, err |-> TRUE]
  ELSE IF lastUpdate + interval > tnow THEN [upd |-> FALSE, err |-> FALSE]
  ELSE [upd |-> TRUE, err |-> FALSE]

\* the closure isNecessaryUpdate of generateKeys
isNecessaryUpdate(onlyUpdateIfNecessary, interval, activePublicKey, lastUpdate, tnow) ==
  IF ~onlyUpdateIfNecessary THEN [upd |-> TRUE, err |-> FALSE]
  ELSE IF interval <= 0 THEN [upd |-> FALSE, err |-> TRUE]
  ELSE IF activePublicKey # NoKey /\ lastUpdate + interval > tnow
       THEN [upd |-> FALSE, err |-> FALSE]
  ELSE [upd |-> TRUE, err |-> FALSE]

\* onlyUpdateIfNecessary of the call a proc is in
OnlyIfNecessary(p) == op[p] \in {"upd", "loop"}

\* ReadKeys without the second read of line 199
ReadKeys_stale(f) ==
  IF f.session # 0 THEN f
  ELSE [f EXCEPT !.session = WireGuardGetKeys.session,
                 !.activePublicKey = WireGuardGetKeys.activePublicKey,
                 !.lastUpdate = WireGuardGetKeys.lastUpdate,
                 !.interval = WireGuardGetKeys.interval]

\* the values generateKeys reads at lines 170 and 199
ReadKeys(f) ==
  [f EXCEPT !.session = WireGuardGetKeys.session,
                   !.activePublicKey = WireGuardGetKeys.activePublicKey,
                   !.lastUpdate = WireGuardGetKeys.lastUpdate,
                   !.interval = WireGuardGetKeys.interval]

\* a mutex that never blocks
MutexFree_open == TRUE

\* m._mutex.Lock() can return
MutexFree == mutex = NoProc

\* activeKeyToUpdate without the Connected() test
activeKeyToUpdate_always(isConnected, activePublicKey) == activePublicKey

\* the old key handed to api.WireGuardKeySet
activeKeyToUpdate(isConnected, activePublicKey) ==
  IF isConnected = FALSE THEN NoKey ELSE activePublicKey

\* the first-key test never true
NeedStartRotation_never(activePublicKey) == FALSE

\* line 230: the attempt provisioned the first key
NeedStartRotation(activePublicKey) == activePublicKey = NoKey

\* ------------------------------------------------------- rotation loop
Running(l) == pc[l] \notin {"none", "done"}
RunningLoops == {l \in Loops : Running(l)}

\* Parked with the signal also reaching a goroutine inside its tick
Parked_all == RunningLoops

\* goroutines blocked in the select of line 115: the only receivers of
\* the unbuffered channel m._stopKeysRotation
Parked == {l \in Loops : pc[l] = "select"}

\* StopKeysRotation: the goroutine that takes the signal, NoProc if the
\* send falls through to default
StopTargets == IF Parked = {} THEN {NoProc} ELSE Parked

Stopped(f, t) == IF t = NoProc THEN f ELSE [f EXCEPT ![t] = "done"]

\* the channel after the send to t: a signal no goroutine takes stays only
\* if the channel has room for it
Queued(t) ==
  IF t = NoProc /\ stopQueued < StopChanCap THEN stopQueued + 1 ELSE stopQueued

\* LoopWait without the one-hour retry after a failed tick
LoopWait_nobackoff(failed, lastUpdate0, interval, tnow) ==
  LET w0 == (lastUpdate0 + interval) - tnow
  IN IF lastUpdate0 + w0 < tnow THEN Second ELSE w0

\* lines 103-113 of the goroutine
LoopWait(failed, lastUpdate0, interval, tnow) ==
  LET w0 == (lastUpdate0 + interval) - tnow
      w1 == IF failed THEN Hour ELSE w0
      lastUpdate == IF failed THEN tnow ELSE lastUpdate0
  IN IF lastUpdate + w1 < tnow THEN Second ELSE w1

\* StartOutcome without the test of the active key
StartOutcome_nokeytest(interval, activePublicKey) ==
  IF interval <= 0 THEN "IntervalUndefined" ELSE "Started"

\* lines 86-93 of StartKeysRotation
StartOutcome(interval, activePublicKey) ==
  IF interval <= 0 THEN "IntervalUndefined"
  ELSE IF activePublicKey = NoKey THEN "NoActiveKey"
  ELSE "Started"

NextLoop == 3 + spawned

IsError(r) == r \in {"NotInitialized", "IntervalUndefined", "KeyGenFailed",
                     "IssuanceFailed", "InitFailed"}

\* no call has returned yet
NoReturn ==
  [by |-> NoProc, op |-> "none", res |-> "none", locked |-> FALSE, rd |-> NoView,
   pub |-> NoKey, loop |-> NoProc]

\* a call made from outside returns r; op is only kept while a call runs
Returned(p, name, r, isLocked, v, pub, l) ==
  [by |-> p, op |-> name, res |-> r, locked |-> isLocked, rd |-> v, pub |-> pub,
   loop |-> l]
Idle(ops, p) == IF p \in Callers THEN [ops EXCEPT ![p] = "none"] ELSE ops

\* threads are interchangeable: the second one is used only while the
\* first one is inside a call
MayCall(c) == pc[c] = "idle" /\ \A b \in Callers : b < c => pc[b] # "idle"

\* RetPc with a goroutine that ends when its tick returns
RetPc_quit(f, p) == [f EXCEPT ![p] = IF p \in Callers THEN "idle" ELSE "done"]

\* how a call of generateKeys (from outside, or as a tick) hands back r
RetPc(f, p) == [f EXCEPT ![p] = IF p \in Callers THEN "idle" ELSE "compute"]
RetFailed(p, r) ==
  IF p \in Loops THEN [isLastUpdateFailed EXCEPT ![p] = IsError(r)]
  ELSE isLastUpdateFailed

\* ------------------------------------------------------------------ Init
\* CreateKeysManager, and the settings the daemon found on disk
Init ==
  /\ service = NilReceiver
  /\ mutex = NoProc
  /\ prefs \in {[Session |-> FirstSession, WGPublicKey |-> k, WGPrivateKey |-> k,
                 WGLocalIP |-> IF k = NoKey THEN NoIP ELSE 1,
                 WGKeyGenerated |-> IF k = NoKey THEN 0 ELSE Now0 - a,
                 WGKeysRegenInerval |-> i] :
                 k \in {NoKey, InitKey}, i \in Intervals, a \in KeyAges}
  /\ now = Now0
  /\ advances = 0
  /\ keysMade = 0
  /\ spawned = 0
  /\ calls = 0
  /\ logins = 0
  /\ pc = [p \in Procs |-> IF p \in Callers THEN "idle" ELSE "none"]
  /\ op = [p \in Procs |-> "none"]
  /\ lastRet = NoReturn
  /\ frame = [p \in Procs |-> EmptyFrame]
  /\ view = [p \in Procs |-> NoView]
  /\ isLastUpdateFailed = [l \in Loops |-> FALSE]
  /\ waitInterval = [l \in Loops |-> 0]
  /\ deadline = [l \in Loops |-> 0]
  /\ lastIssue = NoIssue
  /\ serverKey = prefs.WGPublicKey
  /\ stopQueued = 0
  /\ stopSeen = {}
  /\ lateTick = {}

\* --------------------------------------------------------------- actions
\* a caller enters one of the exported methods
Call(c) ==
  /\ MayCall(c)
  /\ calls < MaxCalls
  /\ calls' = calls + 1

\* KeysManager.Init without the test of m._service
KeysManagerInit_rebind(c, receiver) ==
  /\ Call(c)
  /\ IF receiver = NilReceiver
     THEN /\ lastRet' = Returned(c, "init", "InitFailed", FALSE, NoView, NoKey, NoProc)
          /\ UNCHANGED service
     ELSE /\ service' = receiver
          /\ lastRet' = Returned(c, "init", "InitOk", FALSE, NoView, NoKey, NoProc)
  /\ UNCHANGED <<mutex, prefs, now, advances, keysMade, spawned, logins, pc, op,
                 frame, view, isLastUpdateFailed, waitInterval, deadline, lastIssue,
                 serverKey, stopQueued, stopSeen, lateTick>>

\* KeysManager.Init
KeysManagerInit(c, receiver) ==
  /\ Call(c)
  /\ IF receiver = NilReceiver \/ service # NilReceiver
     THEN /\ lastRet' = Returned(c, "init", "InitFailed", FALSE, NoView, NoKey, NoProc)
          /\ UNCHANGED service
     ELSE /\ service' = receiver
          /\ lastRet' = Returned(c, "init", "InitOk", FALSE, NoView, NoKey, NoProc)
  /\ UNCHANGED <<mutex, prefs, now, advances, keysMade, spawned, logins, pc, op,
                 frame, view, isLastUpdateFailed, waitInterval, deadline, lastIssue,
                 serverKey, stopQueued, stopSeen, lateTick>>

\* KeysManager.StopKeysRotation called from outside
StopKeysRotation(c) ==
  /\ Call(c)
  /\ \E t \in StopTargets : pc' = Stopped(pc, t) /\ stopQueued' = Queued(t)
  /\ lastRet' = Returned(c, "stop", "none", FALSE, NoView, NoKey, NoProc)
  /\ stopSeen' = stopSeen \cup {l \in RunningLoops : pc[l] # "compute"}
  /\ UNCHANGED <<service, mutex, prefs, now, advances, keysMade, spawned, logins,
                 op, frame, view, isLastUpdateFailed, waitInterval, deadline,
                 lastIssue, serverKey, lateTick>>

\* StartBody with the stop signal sent only once interval and key were
\* found valid
StartBody_validatefirst(p, back, r, ops) ==
  IF service = NilReceiver
  THEN /\ r = "NotInitialized"
       /\ pc' = [pc EXCEPT ![p] = back]
       /\ op' = ops
       /\ UNCHANGED <<spawned, stopQueued>>
  ELSE /\ r = StartOutcome(WireGuardGetKeys.interval, WireGuardGetKeys.activePublicKey)
       /\ IF r = "Started"
          THEN \E t \in StopTargets :
                 /\ stopQueued' = Queued(t)
                 /\ spawned < MaxLoops
                 /\ spawned' = spawned + 1
                 /\ pc' = [Stopped(pc, t) EXCEPT ![p] = back, ![NextLoop] = "compute"]
                 /\ op' = [ops EXCEPT ![NextLoop] = "loop"]
          ELSE /\ pc' = [pc EXCEPT ![p] = back]
               /\ op' = ops
               /\ UNCHANGED <<spawned, stopQueued>>

\* the body of KeysManager.StartKeysRotation run by proc p, which is left
\* at position back: the outcome r and what the call does to the goroutines
StartBody(p, back, r, ops) ==
  IF service = NilReceiver
  THEN /\ r = "NotInitialized"
       /\ pc' = [pc EXCEPT ![p] = back]
       /\ op' = ops
       /\ UNCHANGED <<spawned, stopQueued>>
  ELSE \E t \in StopTargets :
         /\ stopQueued' = Queued(t)
         /\ r = StartOutcome(WireGuardGetKeys.interval, WireGuardGetKeys.activePublicKey)
         /\ IF r = "Started"
            THEN /\ spawned < MaxLoops
                 /\ spawned' = spawned + 1
                 /\ pc' = [Stopped(pc, t) EXCEPT ![p] = back, ![NextLoop] = "compute"]
                 /\ op' = [ops EXCEPT ![NextLoop] = "loop"]
            ELSE /\ pc' = [Stopped(pc, t) EXCEPT ![p] = back]
                 /\ op' = ops
                 /\ UNCHANGED spawned

StartResults == {"NotInitialized", "IntervalUndefined", "NoActiveKey", "Started"}

\* KeysManager.StartKeysRotation called from outside
StartKeysRotation(c) ==
  /\ Call(c)
  /\ \E r \in StartResults :
       /\ StartBody(c, "idle", r, op)
       /\ lastRet' = Returned(c, "start", r, FALSE,
                               IF r = "NotInitialized" THEN NoView ELSE View, NoKey,
                               IF spawned' # spawned THEN NextLoop ELSE NoProc)
  /\ UNCHANGED <<service, mutex, prefs, now, advances, keysMade, logins, frame,
                 view,
                 isLastUpdateFailed, waitInterval, deadline, lastIssue,
                 serverKey, stopSeen, lateTick>>

\* GenReturn with every error replaced by nil
GenReturn_nilerror(p, name, r, isLocked, v) ==
  /\ pc' = RetPc(pc, p)
  /\ op' = Idle(op, p)
  /\ lastRet' = Returned(p, name, IF IsError(r) THEN "Success" ELSE r, isLocked, v,
                          frame[p].pub, NoProc)
  /\ frame' = [frame EXCEPT ![p] = EmptyFrame]
  /\ view' = [view EXCEPT ![p] = NoView]
  /\ isLastUpdateFailed' = RetFailed(p, r)

\* generateKeys hands r back to its caller
GenReturn(p, name, r, isLocked, v) ==
  /\ pc' = RetPc(pc, p)
  /\ op' = Idle(op, p)
  /\ lastRet' = Returned(p, name, r, isLocked, v, frame[p].pub, NoProc)
  /\ frame' = [frame EXCEPT ![p] = EmptyFrame]
  /\ view' = [view EXCEPT ![p] = NoView]
  /\ isLastUpdateFailed' = RetFailed(p, r)

\* GenEnter without the test of m._service
GenEnter_nocheck(p, name, onlyUpdateIfNecessary) ==
  LET f == ReadKeys(EmptyFrame)
      d == isNecessaryUpdate(onlyUpdateIfNecessary, f.interval,
                             f.activePublicKey, f.lastUpdate, now)
  IN IF d.err THEN GenReturn(p, name, "IntervalUndefined", FALSE, View)
     ELSE IF ~d.upd THEN GenReturn(p, name, "NotDue", FALSE, View)
     ELSE /\ pc' = [pc EXCEPT ![p] = "g_lock"]
          /\ op' = [op EXCEPT ![p] = name]
          /\ frame' = [frame EXCEPT ![p] = f]
          /\ view' = [view EXCEPT ![p] = View]
          /\ UNCHANGED <<isLastUpdateFailed, lastRet>>

\* generateKeys, lines 164-193: the check made without the mutex
GenEnter(p, name, onlyUpdateIfNecessary) ==
  LET f == ReadKeys(EmptyFrame)
      d == isNecessaryUpdate(onlyUpdateIfNecessary, f.interval,
                             f.activePublicKey, f.lastUpdate, now)
  IN IF service = NilReceiver THEN GenReturn(p, name, "NotInitialized", FALSE, NoView)
     ELSE IF d.err THEN GenReturn(p, name, "IntervalUndefined", FALSE, View)
     ELSE IF ~d.upd THEN GenReturn(p, name, "NotDue", FALSE, View)
     ELSE /\ pc' = [pc EXCEPT ![p] = "g_lock"]
          /\ op' = [op EXCEPT ![p] = name]
          /\ frame' = [frame EXCEPT ![p] = f]
          /\ view' = [view EXCEPT ![p] = View]
          /\ UNCHANGED <<isLastUpdateFailed, lastRet>>

\* KeysManager.GenerateKeys
GenerateKeys(c) ==
  /\ Call(c)
  /\ GenEnter(c, "gen", FALSE)
  /\ UNCHANGED <<service, mutex, prefs, now, advances, keysMade, spawned, logins,
                 waitInterval, deadline, lastIssue, serverKey, stopQueued, stopSeen, lateTick>>

\* KeysManager.UpdateKeysIfNecessary called from outside
UpdateKeysIfNecessary(c) ==
  /\ Call(c)
  /\ GenEnter(c, "upd", TRUE)
  /\ UNCHANGED <<service, mutex, prefs, now, advances, keysMade, spawned, logins,
                 waitInterval, deadline, lastIssue, serverKey, stopQueued, stopSeen, lateTick>>

\* generateKeys, lines 195-209: the mutex, the check made under it, and
\* wireguard.GenerateKeys
GenLock(p) ==
  /\ pc[p] = "g_lock"
  /\ MutexFree
  /\ LET f == ReadKeys(frame[p])
         d == isNecessaryUpdate(OnlyIfNecessary(p), f.interval,
                                f.activePublicKey, f.lastUpdate, now)
     IN IF d.err
        THEN GenReturn(p, op[p], "IntervalUndefined", TRUE, View)
             /\ UNCHANGED <<mutex, keysMade>>
        ELSE IF ~d.upd
        THEN GenReturn(p, op[p], "NotDue", TRUE, View) /\ UNCHANGED <<mutex, keysMade>>
        ELSE \/ /\ keysMade < MaxKeys
                /\ keysMade' = keysMade + 1
                /\ mutex' = p
                /\ frame' = [frame EXCEPT ![p] =
                               [f EXCEPT !.pub = InitKey + keysMade + 1,
                                         !.priv = InitKey + keysMade + 1]]
                /\ view' = [view EXCEPT ![p] = View]
                /\ pc' = [pc EXCEPT ![p] = "g_issue"]
                /\ UNCHANGED <<op, isLastUpdateFailed, lastRet>>
             \/ /\ GenReturn(p, op[p], "KeyGenFailed", TRUE, View)
                /\ UNCHANGED <<mutex, keysMade>>
  /\ UNCHANGED <<service, prefs, now, advances, spawned, calls, logins,
                 waitInterval, deadline, lastIssue, serverKey, stopQueued, stopSeen, lateTick>>

\* generateKeys, lines 211-222: Connected() and api.WireGuardKeySet
GenIssue(p) ==
  /\ pc[p] = "g_issue"
  /\ \E isConnected \in BOOLEAN, ok \in BOOLEAN, ip \in IPs :
       LET f == frame[p]
       IN /\ lastIssue' =
               [n |-> lastIssue.n + 1, by |-> p, only |-> OnlyIfNecessary(p),
                session |-> f.session, newKey |-> f.pub,
                oldKey |-> activeKeyToUpdate(isConnected, f.activePublicKey),
                conn |-> isConnected, ok |-> ok,
                ip |-> IF ok THEN ip ELSE NoIP, rd |-> view[p]]
          /\ serverKey' = IF ok THEN f.pub ELSE serverKey
          /\ IF ok
             THEN /\ frame' = [frame EXCEPT ![p].localIP = ip]
                  /\ pc' = [pc EXCEPT ![p] = "g_save"]
                  /\ UNCHANGED <<mutex, op, view, isLastUpdateFailed, lastRet>>
             ELSE /\ GenReturn(p, op[p], "IssuanceFailed", TRUE, view[p])
                  /\ mutex' = NoProc
  /\ UNCHANGED <<service, prefs, now, advances, keysMade, spawned, calls, logins,
                 waitInterval, deadline, stopQueued, stopSeen, lateTick>>

\* GenSave without the call of WireGuardSaveNewKeys
GenSave_skipped(p) ==
  /\ pc[p] = "g_save"
  /\ pc' = [pc EXCEPT ![p] = "g_rot"]
  /\ UNCHANGED <<service, mutex, prefs, now, advances, keysMade, spawned, calls,
                 logins, op, frame, view, isLastUpdateFailed, waitInterval,
                 deadline, lastRet, lastIssue, serverKey, stopQueued, stopSeen,
                 lateTick>>

\* GenSave handing over the address the store already holds
GenSave_storedip(p) ==
  /\ pc[p] = "g_save"
  /\ prefs' = WireGuardSaveNewKeys(frame[p].pub, frame[p].priv, prefs.WGLocalIP, now)
  /\ pc' = [pc EXCEPT ![p] = "g_rot"]
  /\ UNCHANGED <<service, mutex, now, advances, keysMade, spawned, calls, logins,
                 op, frame, view, isLastUpdateFailed, waitInterval, deadline,
                 lastRet, lastIssue, serverKey, stopQueued, stopSeen, lateTick>>

\* generateKeys, lines 224-227: WireGuardSaveNewKeys
GenSave(p) ==
  /\ pc[p] = "g_save"
  /\ prefs' = WireGuardSaveNewKeys(frame[p].pub, frame[p].priv, frame[p].localIP, now)
  /\ pc' = [pc EXCEPT ![p] = "g_rot"]
  /\ UNCHANGED <<service, mutex, now, advances, keysMade, spawned, calls, logins,
                 op, frame, view, isLastUpdateFailed, waitInterval, deadline,
                 lastRet, lastIssue, serverKey, stopQueued, stopSeen, lateTick>>

\* generateKeys, lines 229-234: StartKeysRotation after the first key, the
\* deferred Unlock and the return
GenRet(p) ==
  /\ pc[p] = "g_rot"
  /\ LET back == IF p \in Callers THEN "idle" ELSE "compute"
     IN IF NeedStartRotation(frame[p].activePublicKey)
        THEN \E r \in StartResults :
               /\ StartBody(p, back, r, Idle(op, p))
               /\ lastRet' = Returned(p, op[p], "Success", TRUE, view[p], frame[p].pub,
                                       IF spawned' # spawned THEN NextLoop ELSE NoProc)
        ELSE /\ pc' = [pc EXCEPT ![p] = back]
             /\ op' = Idle(op, p)
             /\ lastRet' = Returned(p, op[p], "Success", TRUE, view[p], frame[p].pub,
                                     NoProc)
             /\ UNCHANGED <<spawned, stopQueued>>
  /\ mutex' = NoProc
  /\ frame' = [frame EXCEPT ![p] = EmptyFrame]
  /\ view' = [view EXCEPT ![p] = NoView]
  /\ isLastUpdateFailed' = RetFailed(p, "Success")
  /\ UNCHANGED <<service, prefs, now, advances, keysMade, calls, logins,
                 waitInterval, deadline, lastIssue, serverKey, stopSeen, lateTick>>

\* the goroutine, lines 103-115, up to blocking in the select: a signal
\* already in the channel is ready before the timer, which takes 1 s or more
LoopCompute(l) ==
  /\ pc[l] = "compute"
  /\ LET w == LoopWait(isLastUpdateFailed[l], WireGuardGetKeys.lastUpdate,
                       WireGuardGetKeys.interval, now)
     IN /\ waitInterval' = [waitInterval EXCEPT ![l] = w]
        /\ deadline' = [deadline EXCEPT ![l] = now + w]
  /\ view' = [view EXCEPT ![l] = View]
  /\ IF stopQueued > 0
     THEN pc' = [pc EXCEPT ![l] = "done"] /\ stopQueued' = stopQueued - 1
     ELSE pc' = [pc EXCEPT ![l] = "select"] /\ UNCHANGED stopQueued
  /\ UNCHANGED <<service, mutex, prefs, now, advances, keysMade, spawned, calls,
                 logins, op, frame, isLastUpdateFailed, lastRet, lastIssue,
                 serverKey, stopSeen, lateTick>>

\* the goroutine, lines 116-117: the timer fires and the tick enters
\* UpdateKeysIfNecessary
LoopTick(l) ==
  /\ pc[l] = "select"
  /\ now >= deadline[l]
  /\ GenEnter(l, "loop", TRUE)
  /\ waitInterval' = [waitInterval EXCEPT ![l] = 0]
  /\ deadline' = [deadline EXCEPT ![l] = 0]
  /\ lateTick' = IF l \in stopSeen THEN lateTick \cup {l} ELSE lateTick
  /\ UNCHANGED <<service, mutex, prefs, now, advances, keysMade, spawned, calls,
                 logins, lastIssue, serverKey, stopQueued,
                 stopSeen>>

\* ----------------------------------------------------------- environment
\* time passes
AdvanceTime(d) ==
  /\ advances < MaxAdvances
  /\ advances' = advances + 1
  /\ now' = now + d
  /\ UNCHANGED <<service, mutex, prefs, keysMade, spawned, calls, logins, pc, op,
                 frame, view, isLastUpdateFailed, waitInterval, deadline, lastRet,
                 lastIssue, serverKey, stopQueued, stopSeen, lateTick>>

\* Preferences.SetSession on login / logout: no WireGuard credentials yet
SetSession ==
  /\ logins < MaxLogins
  /\ logins' = logins + 1
  /\ prefs' = setSession(FirstSession + logins + 1, NoKey, NoKey, NoIP, now)
  /\ UNCHANGED <<service, mutex, now, advances, keysMade, spawned, calls, pc, op,
                 frame, view, isLastUpdateFailed, waitInterval, deadline, lastRet,
                 lastIssue, serverKey, stopQueued, stopSeen, lateTick>>

Next ==
  \/ \E c \in Callers, r \in Receivers \cup {NilReceiver} : KeysManagerInit(c, r)
  \/ \E c \in Callers : StopKeysRotation(c)
  \/ \E c \in Callers : StartKeysRotation(c)
  \/ \E c \in Callers : GenerateKeys(c)
  \/ \E c \in Callers : UpdateKeysIfNecessary(c)
  \/ \E p \in Procs : GenLock(p)
  \/ \E p \in Procs : GenIssue(p)
  \/ \E p \in Procs : GenSave(p)
  \/ \E p \in Procs : GenRet(p)
  \/ \E l \in Loops : LoopCompute(l)
  \/ \E l \in Loops : LoopTick(l)
  \/ \E d \in Deltas : AdvanceTime(d)
  \/ SetSession

Spec == Init /\ [][Next]_vars

\* ---------------------------------------------------- preferences store
\* a Preferences object as constructed: the zero SessionStatus
NewPreferences ==
  [Session |-> 0, WGPublicKey |-> NoKey, WGPrivateKey |-> NoKey,
   WGLocalIP |-> NoIP, WGKeyGenerated |-> 0, WGKeysRegenInerval |-> 0]

\* what platform.SettingsFile() can hold: unreadable or not JSON, written by
\* a client <= v2.10.9 ("firewall_is_persistent"), or written by
\* SavePreferences with the Session it had
SettingsFiles ==
  [readable : BOOLEAN, schema : {"old", "new"},
   Session : {0, FirstSession}, WGPublicKey : {NoKey, InitKey},
   WGPrivateKey : {NoKey, InitKey}, WGLocalIP : {NoIP, 1},
   WGKeyGenerated : {Now0}, WGKeysRegenInerval : Intervals]

\* LoadPreferences without the default for an interval <= 0
LoadPreferences_nodefault(file, p) ==
  IF ~file.readable THEN [err |-> TRUE, schema |-> "none", prefs |-> p]
  ELSE IF file.schema = "old" THEN [err |-> FALSE, schema |-> "old", prefs |-> p]
  ELSE LET q == [Session |-> file.Session, WGPublicKey |-> file.WGPublicKey,
                 WGPrivateKey |-> file.WGPrivateKey, WGLocalIP |-> file.WGLocalIP,
                 WGKeyGenerated |-> file.WGKeyGenerated,
                 WGKeysRegenInerval |-> file.WGKeysRegenInerval]
           incomplete == q.WGPublicKey = NoKey \/ q.WGPrivateKey = NoKey
                           \/ q.WGLocalIP = NoIP
       IN [err |-> FALSE, schema |-> "new",
           prefs |-> IF incomplete THEN [q EXCEPT !.WGKeyGenerated = 0] ELSE q]

\* Preferences.LoadPreferences: the error and the Session afterwards
LoadPreferences(file, p) ==
  IF ~file.readable THEN [err |-> TRUE, schema |-> "none", prefs |-> p]
  ELSE IF file.schema = "old" THEN [err |-> FALSE, schema |-> "old", prefs |-> p]
  ELSE LET q == [Session |-> file.Session, WGPublicKey |-> file.WGPublicKey,
                 WGPrivateKey |-> file.WGPrivateKey, WGLocalIP |-> file.WGLocalIP,
                 WGKeyGenerated |-> file.WGKeyGenerated,
                 WGKeysRegenInerval |-> file.WGKeysRegenInerval]
           incomplete == q.WGPublicKey = NoKey \/ q.WGPrivateKey = NoKey
                           \/ q.WGLocalIP = NoIP
           q1 == IF incomplete THEN [q EXCEPT !.WGKeyGenerated = 0] ELSE q
       IN [err |-> FALSE, schema |-> "new",
           prefs |-> IF q1.WGKeysRegenInerval <= 0
                     THEN [q1 EXCEPT !.WGKeysRegenInerval = DefaultWGKeysInterval]
                     ELSE q1]

\* the daemon before it has read its settings
PrefsInit ==
  /\ service = NilReceiver
  /\ mutex = NoProc
  /\ prefs = NewPreferences
  /\ now = Now0
  /\ advances = 0
  /\ keysMade = 0
  /\ spawned = 0
  /\ calls = 0
  /\ logins = 0
  /\ pc = [p \in Procs |-> IF p \in Callers THEN "idle" ELSE "none"]
  /\ op = [p \in Procs |-> "none"]
  /\ lastRet = NoReturn
  /\ frame = [p \in Procs |-> EmptyFrame]
  /\ view = [p \in Procs |-> NoView]
  /\ isLastUpdateFailed = [l \in Loops |-> FALSE]
  /\ waitInterval = [l \in Loops |-> 0]
  /\ deadline = [l \in Loops |-> 0]
  /\ lastIssue = NoIssue
  /\ serverKey = NoKey
  /\ stopQueued = 0
  /\ stopSeen = {}
  /\ lateTick = {}

\* Preferences.LoadPreferences called with the settings file as it is
PrefsLoad(c, file) ==
  /\ Call(c)
  /\ LET r == LoadPreferences(file, prefs)
     IN /\ prefs' = r.prefs
        /\ lastRet' =
             Returned(c, "load",
                      IF r.err THEN "LoadFailed"
                      ELSE IF r.schema = "old" THEN "LoadedOld" ELSE "LoadedNew",
                      FALSE,
                      [session |-> r.prefs.Session, key |-> r.prefs.WGPublicKey,
                       lastUpdate |-> r.prefs.WGKeyGenerated,
                       interval |-> r.prefs.WGKeysRegenInerval, at |-> now],
                      NoKey, NoProc)
  /\ UNCHANGED <<service, mutex, now, advances, keysMade, spawned, logins, pc, op,
                 frame, view, isLastUpdateFailed, waitInterval, deadline,
                 lastIssue, serverKey, stopQueued, stopSeen, lateTick>>

\* Preferences.SetSession with the credentials the login returned
PrefsLogin(k) ==
  /\ logins < MaxLogins
  /\ logins' = logins + 1
  /\ prefs' = setSession(FirstSession + logins + 1, k, k,
                         IF k = NoKey THEN NoIP ELSE 1, now)
  /\ UNCHANGED <<service, mutex, now, advances, keysMade, spawned, calls, pc, op,
                 frame, view, isLastUpdateFailed, waitInterval, deadline, lastRet,
                 lastIssue, serverKey, stopQueued, stopSeen, lateTick>>

PrefsNext ==
  \/ \E c \in Callers, file \in SettingsFiles : PrefsLoad(c, file)
  \/ \E k \in {NoKey, InitKey} : PrefsLogin(k)
  \/ \E d \in Deltas : AdvanceTime(d)

PrefsSpec == PrefsInit /\ [][PrefsNext]_vars

\* ================================================================ claims
InGuard(p) == pc[p] \in {"g_issue", "g_save", "g_rot"}
StoreDue == prefs.WGPublicKey = NoKey
              \/ prefs.WGKeyGenerated + prefs.WGKeysRegenInerval <= now
Fresh(v) == v.interval > 0 /\ v.key # NoKey /\ v.at < v.lastUpdate + v.interval
Attempted(r) == r \in {"KeyGenFailed", "IssuanceFailed", "Success"}

\* C1: at most one rotation attempt is between acquiring and releasing the
\* mutex (key generated, issuance, save, loop start) at any instant, and it
\* is the one the mutex records as its holder.
C1_MutualExclusion ==
  /\ Cardinality({p \in Procs : InGuard(p)}) <= 1
  /\ \A p \in Procs : InGuard(p) => mutex = p

\* an attempt holds the mutex while another one waits for it
C1_Witness ==
  \E p, q \in Procs : p # q /\ pc[p] = "g_save" /\ pc[q] = "g_lock" /\ mutex = p

\* C2: an UpdateKeysIfNecessary attempt goes on to the issuance call only if
\* the store is due when it holds the mutex; one that finds a fresh key under
\* the mutex returns nil without having generated a key.  So of two
\* concurrent calls the loser of the race makes no second issuance call.
C2_NoDuplicateIssuance ==
  /\ \A p \in Procs :
       pc[p] \in {"g_issue", "g_save"} /\ OnlyIfNecessary(p)
         => prefs.WGKeysRegenInerval > 0 /\ StoreDue
  /\ lastRet.op \in {"upd", "loop"} /\ lastRet.locked /\ Fresh(lastRet.rd)
       => lastRet.res = "NotDue" /\ lastRet.pub = NoKey

\* two concurrent UpdateKeysIfNecessary calls: one issued and saved its key,
\* the other saw that key under the mutex and returned NotDue; one issuance
C2_Witness ==
  /\ lastRet.op = "upd" /\ lastRet.locked /\ lastRet.res = "NotDue"
  /\ lastIssue.n = 1 /\ lastIssue.ok /\ lastIssue.only
  /\ lastIssue.by \in Callers /\ lastIssue.by # lastRet.by
  /\ lastRet.rd.key = lastIssue.newKey
  /\ lastRet.rd.lastUpdate = lastRet.rd.at

\* C3 (as claimed): at most one rotation goroutine is running at any time.
C3_AtMostOneLoop == Cardinality(RunningLoops) <= 1

\* C4 (as claimed): a goroutine that was waiting in its select or executing
\* a tick when StopKeysRotation was called begins no further tick.
C4_NoTickAfterStop == lateTick = {}

\* C5: with interval > 0 and an active key, UpdateKeysIfNecessary returns nil
\* without generating a key exactly when now < generatedAt + interval at its
\* deciding read; from generatedAt + interval on it makes a rotation attempt.
C5_DueIffExpired ==
  lastRet.op \in {"upd", "loop"} /\ lastRet.res # "NotInitialized"
    /\ lastRet.rd.interval > 0 /\ lastRet.rd.key # NoKey
  => /\ lastRet.res = "NotDue"
          <=> lastRet.rd.at < lastRet.rd.lastUpdate + lastRet.rd.interval
     /\ lastRet.res = "NotDue" => lastRet.pub = NoKey
     /\ lastRet.res # "NotDue" => Attempted(lastRet.res) /\ lastRet.locked
     /\ lastRet.res \in {"IssuanceFailed", "Success"} => lastRet.pub # NoKey

\* a call made exactly at generatedAt + interval rotated the key
C5_Witness ==
  /\ lastRet.op = "upd" /\ lastRet.res = "Success"
  /\ lastRet.rd.key # NoKey /\ lastRet.rd.interval > 0
  /\ lastRet.rd.at = lastRet.rd.lastUpdate + lastRet.rd.interval

\* C6: GenerateKeys on an initialized manager always makes a rotation
\* attempt: it never returns NotDue or IntervalUndefined, and unless key
\* generation fails it makes an issuance call with the key it generated.
C6_GenerateAlwaysAttempts ==
  /\ lastRet.op = "gen" /\ lastRet.res # "NotInitialized"
       => /\ Attempted(lastRet.res) /\ lastRet.locked
          /\ lastRet.res # "KeyGenFailed"
               => lastRet.pub # NoKey /\ lastIssue.n > 0
                    /\ lastIssue.newKey >= lastRet.pub
  /\ \A p \in Procs :
       pc[p] \in {"g_save", "g_rot"}
         => lastIssue.by = p /\ lastIssue.ok /\ lastIssue.newKey = frame[p].pub

\* the second of two overlapping GenerateKeys calls made the second issuance
\* call, under the mutex, for a key the first one had saved that instant
C6_Witness ==
  /\ lastRet.op = "gen" /\ lastRet.res = "Success"
  /\ lastIssue.n = 2 /\ ~lastIssue.only /\ lastIssue.by \in Callers
  /\ lastIssue.by # lastRet.by
  /\ lastIssue.rd.key = lastRet.pub
  /\ lastIssue.rd.lastUpdate = lastIssue.rd.at
  /\ InGuard(lastIssue.by)

C8_IssuanceArguments ==
  /\ lastIssue.n > 0
       => /\ ~lastIssue.conn => lastIssue.oldKey = NoKey
          /\ lastIssue.conn => lastIssue.oldKey = lastIssue.rd.key
          /\ lastIssue.session = lastIssue.rd.session
          /\ lastIssue.newKey > InitKey /\ lastIssue.newKey > lastIssue.rd.key
  /\ \A p \in Procs : pc[p] = "g_issue" => frame[p].pub = InitKey + keysMade

\* an issuance call made while disconnected although an active key existed
C8_Witness ==
  lastIssue.n > 0 /\ ~lastIssue.conn /\ lastIssue.rd.key # NoKey

\* C9 (as claimed): StartKeysRotation without an active key returns nil and
\* starts no goroutine, whatever the interval.
C9_NoKeyNoLoopSuccess ==
  lastRet.op = "start" /\ lastRet.res # "NotInitialized" /\ lastRet.rd.key = NoKey
    => lastRet.res = "NoActiveKey" /\ lastRet.loop = NoProc

\* C9 (amended): without an active key it starts no goroutine; it returns
\* nil when the interval is > 0 and the interval error when it is <= 0.
C9_NoKeyNoLoop ==
  lastRet.op = "start" /\ lastRet.res # "NotInitialized" /\ lastRet.rd.key = NoKey
    => /\ lastRet.loop = NoProc
       /\ lastRet.rd.interval > 0 => lastRet.res = "NoActiveKey"
       /\ lastRet.rd.interval <= 0 => lastRet.res = "IntervalUndefined"

\* StartKeysRotation returned nil for a store without a key; nothing runs
C9_Witness ==
  /\ lastRet.op = "start" /\ lastRet.res = "NoActiveKey"
  /\ lastRet.rd.key = NoKey /\ lastRet.rd.interval > 0
  /\ RunningLoops = {} /\ spawned = 0

\* C10: with an interval <= 0 UpdateKeysIfNecessary returns the interval
\* error without generating a key, with or without an active key, and
\* StartKeysRotation returns the interval error and starts no goroutine.
C10_IntervalUndefined ==
  /\ lastRet.op \in {"upd", "loop"} /\ lastRet.res # "NotInitialized"
       /\ lastRet.rd.interval <= 0
       => lastRet.res = "IntervalUndefined" /\ lastRet.pub = NoKey
  /\ lastRet.op = "start" /\ lastRet.res # "NotInitialized"
       /\ lastRet.rd.interval <= 0
       => lastRet.res = "IntervalUndefined" /\ lastRet.loop = NoProc
  /\ \A p \in Procs :
       InGuard(p) /\ OnlyIfNecessary(p) => view[p].interval > 0

\* the interval error although no key exists, and the store untouched
C10_Witness ==
  /\ lastRet.op = "upd" /\ lastRet.res = "IntervalUndefined"
  /\ lastRet.rd.key = NoKey /\ prefs.WGPublicKey = NoKey /\ keysMade = 0

\* C11: a goroutine blocked in its select after a tick that returned an
\* error waits exactly one hour from the moment it computed the wait,
\* whatever generatedAt and interval it read; after a tick that returned nil
\* the flag is false and the wait is again computed from generatedAt +
\* interval (or is the one-second floor).  The flag is true exactly after
\* a tick that returned KeyGenFailed, IssuanceFailed or IntervalUndefined.
C11_FailedTickWaitsHour ==
  /\ \A l \in Loops :
       pc[l] = "select" =>
         /\ isLastUpdateFailed[l]
              => waitInterval[l] = Hour /\ deadline[l] = view[l].at + Hour
         /\ ~isLastUpdateFailed[l]
              => waitInterval[l] \in
                   {Second, (view[l].lastUpdate + view[l].interval) - view[l].at}
  /\ \A l \in Loops :
       lastRet.by = l /\ pc[l] \in {"compute", "select"}
         => (isLastUpdateFailed[l]
               <=> lastRet.res \in {"KeyGenFailed", "IssuanceFailed",
                                    "IntervalUndefined"})

\* the issuance call of a tick failed and the goroutine now waits an hour,
\* although generatedAt + interval has passed
C11_Witness ==
  \E l \in Loops :
    /\ pc[l] = "select" /\ isLastUpdateFailed[l] /\ waitInterval[l] = Hour
    /\ lastRet.by = l /\ lastRet.res = "IssuanceFailed"
    /\ view[l].lastUpdate + view[l].interval <= view[l].at

\* a step in which a caller calls the method name and returns from it
CallReturns(name) ==
  /\ calls' = calls + 1
  /\ lastRet'.op = name
  /\ pc[lastRet'.by] = "idle" /\ pc'[lastRet'.by] = "idle"

\* a step in which StopKeysRotation runs: called from outside, or from
\* StartKeysRotation (itself called from outside or from line 231)
StopSent ==
  \/ CallReturns("stop")
  \/ CallReturns("start") /\ lastRet'.res # "NotInitialized"
  \/ \E p \in Procs : pc[p] = "g_rot" /\ pc'[p] # "g_rot"
                        /\ frame[p].activePublicKey = NoKey

\* C12: a rotation goroutine stops running only in a step that sends the
\* stop signal while it is blocked in its select; a tick, failed or not,
\* brings it back to the head of its loop, and whenever its timer has fired
\* the next tick can be taken (there is no retry counter).
C12_LoopEndsOnlyByStop ==
  /\ [][\A l \in Loops :
          /\ Running(l) /\ ~Running(l)' => pc[l] = "select" /\ StopSent
          /\ lastRet'.by = l /\ lastRet' # lastRet => pc'[l] = "compute"]_vars
  /\ [](\A l \in Loops :
          pc[l] = "select" /\ now >= deadline[l] => ENABLED LoopTick(l))

\* after a tick two hours on failed at key generation the goroutine is
\* back in its select, waiting for the next attempt
C12_Witness ==
  \E l \in Loops :
    /\ lastRet.by = l /\ lastRet.res = "KeyGenFailed"
    /\ lastRet.rd.at = Now0 + 2 * Hour
    /\ pc[l] = "select" /\ deadline[l] > now

\* C13: an attempt whose key generation fails returns KeyGenFailed with no
\* issuance call made; one whose issuance call fails returns IssuanceFailed;
\* in both cases the store, the server-side key and the goroutines are as
\* before, the caller is back where it called from and the mutex is free.
C13_FailedAttemptChangesNothing ==
  [][\A p \in Procs :
       /\ pc[p] = "g_lock" /\ pc'[p] \notin {"g_lock", "g_issue"}
             /\ lastRet'.res \notin {"NotDue", "IntervalUndefined"}
            => /\ lastRet'.by = p /\ lastRet'.res = "KeyGenFailed"
               /\ lastRet'.pub = NoKey /\ lastIssue' = lastIssue
               /\ prefs' = prefs /\ serverKey' = serverKey
               /\ spawned' = spawned /\ RunningLoops' \subseteq RunningLoops \cup {p}
               /\ mutex' = NoProc /\ pc'[p] = RetPc(pc, p)[p]
       /\ pc[p] = "g_issue" /\ pc'[p] # "g_issue"
            => IF lastIssue'.ok
               THEN pc'[p] = "g_save" /\ mutex' = p
               ELSE /\ lastRet'.by = p /\ lastRet'.res = "IssuanceFailed"
                    /\ lastIssue'.n = lastIssue.n + 1 /\ lastIssue'.by = p
                    /\ prefs' = prefs /\ serverKey' = serverKey
                    /\ spawned' = spawned
                    /\ RunningLoops' \subseteq RunningLoops \cup {p}
                    /\ mutex' = NoProc /\ pc'[p] = RetPc(pc, p)[p]]_vars

\* after an issuance call failed and left the store as it was, another
\* attempt holds the mutex
C13_Witness ==
  /\ lastRet.res = "IssuanceFailed" /\ lastRet.by \in Callers
  /\ ~lastIssue.ok /\ lastIssue.by = lastRet.by
  /\ prefs.WGPublicKey = lastIssue.rd.key
  /\ \E q \in Procs : q # lastRet.by /\ pc[q] = "g_issue" /\ mutex = q

\* C14: the save of an attempt stores the key pair generated in that
\* attempt and the address its own issuance call returned, stamped with the
\* current time, so that WireGuardGetKeys then returns the new key.  The save
\* is reached only after a successful issuance call and followed only by
\* the return of nil, which writes nothing more: one save per successful
\* attempt.  No other step of the manager writes the store, so an attempt
\* that returns NotDue or an error has saved nothing.
C14_PersistOncePerSuccess ==
  [][/\ \A p \in Procs :
          /\ pc[p] = "g_save" /\ pc'[p] # "g_save"
               => /\ pc'[p] = "g_rot"
                  /\ lastIssue.by = p /\ lastIssue.ok
                  /\ lastIssue.newKey = frame[p].pub
                  /\ prefs'.WGPublicKey = frame[p].pub
                  /\ prefs'.WGPrivateKey = frame[p].priv
                  /\ prefs'.WGLocalIP = lastIssue.ip
                  /\ prefs'.WGKeyGenerated = now
                  /\ prefs'.WGPublicKey # prefs.WGPublicKey
          /\ pc'[p] = "g_rot" /\ pc[p] # "g_rot" => pc[p] = "g_save"
          /\ pc[p] = "g_rot" /\ pc'[p] # "g_rot"
               => lastRet'.by = p /\ lastRet'.res = "Success" /\ prefs' = prefs
     /\ lastRet'.res = "Success" /\ lastRet' # lastRet
          => pc[lastRet'.by] = "g_rot"
     /\ prefs' # prefs
          => \/ \E p \in Procs : pc[p] = "g_save" /\ pc'[p] = "g_rot"
             \/ logins' = logins + 1]_vars

\* a rotation of the key found on disk returned nil: the store holds the new
\* key with the new address the server assigned, generated now
C14_Witness ==
  /\ lastRet.res = "Success" /\ lastRet.rd.key = InitKey
  /\ prefs.WGPublicKey = lastRet.pub /\ prefs.WGPrivateKey = lastRet.pub
  /\ lastIssue.newKey = lastRet.pub /\ lastIssue.ip = 2
  /\ prefs.WGLocalIP = 2 /\ prefs.WGKeyGenerated = now

\* C15: Init returns nil exactly when no receiver was bound and it binds a
\* present one; a call that returns the error leaves m._service as it
\* was, and nothing but a successful Init ever changes m._service.
C15_InitOnce ==
  [][/\ CallReturns("init")
          => /\ lastRet'.res \in {"InitOk", "InitFailed"}
             /\ lastRet'.res = "InitOk"
                  <=> service = NilReceiver /\ service' \in Receivers
             /\ lastRet'.res = "InitFailed" => service' = service
     /\ service' # service
          => CallReturns("init") /\ lastRet'.res = "InitOk"]_vars

\* Init failed for receiver nil, succeeded for a receiver, and failed
\* again: the receiver bound by the one successful call is still bound
C15_Witness ==
  /\ lastRet.op = "init" /\ lastRet.res = "InitFailed"
  /\ service \in Receivers /\ calls = 3
  /\ spawned = 0 /\ keysMade = 0 /\ lastIssue = NoIssue /\ logins = 0
  /\ advances = 0

\* C16: while no receiver is bound, StartKeysRotation, GenerateKeys and
\* UpdateKeysIfNecessary have all returned NotInitialized at once and have
\* done nothing: no goroutine exists, no signal is in the channel, the
\* mutex was never taken, no key was generated, no issuance call was made
\* and the store holds what was on disk.  NotInitialized is returned in no
\* other situation.
C16_NotInitializedNoEffect ==
  /\ service = NilReceiver
       => /\ lastRet.op \in {"start", "gen", "upd"}
               => /\ lastRet.res = "NotInitialized" /\ ~lastRet.locked
                  /\ lastRet.pub = NoKey /\ lastRet.loop = NoProc
          /\ \A c \in Callers : pc[c] = "idle"
          /\ \A l \in Loops : pc[l] = "none"
          /\ spawned = 0 /\ stopQueued = 0 /\ stopSeen = {}
          /\ mutex = NoProc /\ keysMade = 0 /\ lastIssue = NoIssue
          /\ prefs.WGPublicKey \in {NoKey, InitKey}
          /\ prefs.WGPublicKey # NoKey => serverKey = prefs.WGPublicKey
  /\ lastRet.res = "NotInitialized" => service = NilReceiver

\* three calls on a manager that was never initialized, the last one
\* GenerateKeys with a key on disk: all refused, everything as constructed
C16_Witness ==
  /\ service = NilReceiver /\ calls = 3
  /\ lastRet.op = "gen" /\ lastRet.res = "NotInitialized"
  /\ prefs.WGPublicKey = InitKey

InFlight(p) == pc[p] \in {"g_lock", "g_issue", "g_save", "g_rot"}

\* C17: a step that sends the stop signal leaves every attempt in flight,
\* of a caller or of a tick, where it is and with its locals; a call of
\* StopKeysRotation or StartKeysRotation leaves the mutex, the store and
\* the server untouched; and an attempt that holds the mutex can always
\* take its next step (issuance call, save, return).
C17_StopSparesAttempt ==
  /\ [][/\ StopSent
            => \A p \in Procs :
                 InFlight(p) /\ ~(pc[p] = "g_rot" /\ pc'[p] # "g_rot")
                   => pc'[p] = pc[p] /\ frame'[p] = frame[p] /\ op'[p] = op[p]
        /\ CallReturns("stop") \/ CallReturns("start")
            => /\ mutex' = mutex /\ prefs' = prefs /\ keysMade' = keysMade
               /\ lastIssue' = lastIssue /\ serverKey' = serverKey]_vars
  /\ [](\A p \in Procs :
          /\ pc[p] = "g_issue" => ENABLED GenIssue(p)
          /\ pc[p] = "g_save" => ENABLED GenSave(p)
          /\ pc[p] = "g_rot" /\ spawned < MaxLoops => ENABLED GenRet(p))

\* StopKeysRotation was called while a tick was in flight; the tick has
\* since made its issuance call and is about to save the key
C17_Witness ==
  /\ lastRet.op = "stop"
  /\ \E l \in Loops : l \in stopSeen /\ pc[l] = "g_save" /\ lastIssue.by = l

\* C18: StopKeysRotation can always be called and returns in the same
\* step; it never leaves a signal in the channel; called while no goroutine
\* is running it changes nothing at all, however often it is called; and a
\* goroutine that reaches its select finds no earlier signal there.
C18_StopIsNoOpWithoutLoop ==
  /\ [](stopQueued = 0)
  /\ [](\A c \in Callers :
          MayCall(c) /\ calls < MaxCalls => ENABLED StopKeysRotation(c))
  /\ [][/\ CallReturns("stop") /\ RunningLoops = {}
            => UNCHANGED <<service, mutex, prefs, now, advances, keysMade, spawned,
                           logins, pc, op, frame, view, isLastUpdateFailed,
                           waitInterval, deadline, lastIssue, serverKey,
                           stopQueued, stopSeen, lateTick>>
        /\ \A l \in Loops : pc[l] = "compute" /\ pc'[l] # "compute"
                                => pc'[l] = "select"]_vars

\* the last of three calls on a manager with a receiver, a key and an
\* interval but no goroutine was StopKeysRotation: nothing is left behind
C18_Witness ==
  /\ lastRet.op = "stop" /\ calls = 3 /\ service \in Receivers
  /\ RunningLoops = {} /\ spawned = 0 /\ keysMade = 0 /\ logins = 0
  /\ prefs.WGPublicKey = InitKey /\ prefs.WGKeysRegenInerval > 0

\* C19 (as claimed): a goroutine whose previous tick did not fail waits
\* exactly (generatedAt + interval) - now when that is greater than 0, and
\* one second only when it is <= 0, for the values it read in this
\* iteration.
C19_WaitIsRemainingTime ==
  \A l \in Loops :
    pc[l] = "select" /\ ~isLastUpdateFailed[l]
      => LET remaining == (view[l].lastUpdate + view[l].interval) - view[l].at
         IN waitInterval[l] = IF remaining > 0 THEN remaining ELSE Second

\* C20: as long as the session was not changed from outside the manager,
\* whenever the mutex is free the active key of the store is the new key of
\* the latest successful issuance call (the key found on disk if there was
\* none), and the only non-empty old key an issuance call presents is that
\* key: before the call it is the key the attempt read under the mutex,
\* and after a failed call it still is the key the server holds.
C20_ServerMatchesStore ==
  logins = 0
    => /\ mutex = NoProc => prefs.WGPublicKey = serverKey
       /\ \A p \in Procs :
            pc[p] = "g_issue" => frame[p].activePublicKey = serverKey
       /\ lastIssue.n > 0 /\ lastIssue.oldKey # NoKey
            => /\ lastIssue.oldKey = lastIssue.rd.key
               /\ ~lastIssue.ok => lastIssue.oldKey = serverKey
               /\ lastIssue.ok => serverKey = lastIssue.newKey
       /\ serverKey \in {NoKey, InitKey} => prefs.WGPublicKey = serverKey

\* one issuance call succeeded and its key was saved; a second one
\* presented that key as the old key and failed: store and server agree
C20_Witness ==
  /\ logins = 0 /\ mutex = NoProc
  /\ lastIssue.n = 2 /\ ~lastIssue.ok /\ lastIssue.conn
  /\ lastIssue.oldKey = serverKey /\ serverKey > InitKey
  /\ prefs.WGPublicKey = serverKey /\ lastIssue.newKey > serverKey

\* C21: a call of StartKeysRotation that returns the interval error, or nil
\* for want of an active key, has sent the stop signal first: it starts no
\* goroutine, one goroutine blocked in its select (if there is any) has
\* ended, and if that was the only goroutine running none is running now.
C21_StartStopsBeforeValidating ==
  [][CallReturns("start") /\ lastRet'.res \in {"IntervalUndefined", "NoActiveKey"}
       => /\ spawned' = spawned
          /\ Parked = {} => pc' = pc
          /\ Parked # {} => \E l \in Parked : pc' = [pc EXCEPT ![l] = "done"]
          /\ Parked # {} /\ RunningLoops \subseteq Parked /\ Cardinality(Parked) = 1
               => RunningLoops' = {}]_vars

\* the key was cleared by a logout while the goroutine waited; the
\* StartKeysRotation that followed returned nil, started nothing, and the
\* one goroutine there was has ended
C21_Witness ==
  /\ lastRet.op = "start" /\ lastRet.res = "NoActiveKey" /\ calls = 3
  /\ \A c \in Callers : pc[c] = "idle"
  /\ logins = 1 /\ prefs.WGPublicKey = NoKey
  /\ spawned = 1 /\ pc[NextLoop - 1] = "done" /\ RunningLoops = {}

\* a step in which LoadPreferences returns nil
LoadSucceeds ==
  /\ calls' = calls + 1 /\ lastRet'.op = "load"
  /\ lastRet'.res \in {"LoadedOld", "LoadedNew"}

\* what setSession makes of the interval of the previous Session
KeptInterval ==
  IF prefs.WGKeysRegenInerval > 0 THEN prefs.WGKeysRegenInerval
  ELSE DefaultWGKeysInterval

\* C22 (as claimed): after every LoadPreferences that returns nil, for a
\* file of the current or of the older schema, and after every SetSession
\* the interval of the store is > 0; SetSession keeps an interval > 0 and
\* replaces any other by the default.
C22_IntervalPositive ==
  [][/\ LoadSucceeds => prefs'.WGKeysRegenInerval > 0
     /\ logins' = logins + 1 => prefs'.WGKeysRegenInerval = KeptInterval]_vars

\* C22 (amended): that holds for SetSession and for a file of the current
\* schema; LoadPreferences of a file of the older schema returns nil and
\* leaves the Session, and with it the interval, as it was.
C22_IntervalPositiveUnlessOldSchema ==
  [][/\ LoadSucceeds /\ lastRet'.res = "LoadedNew"
          => prefs'.WGKeysRegenInerval \in Intervals \cup {DefaultWGKeysInterval}
               /\ prefs'.WGKeysRegenInerval > 0
     /\ LoadSucceeds /\ lastRet'.res = "LoadedOld" => prefs' = prefs
     /\ logins' = logins + 1 => prefs'.WGKeysRegenInerval = KeptInterval]_vars

\* a settings file of the current schema with a key and an interval <= 0
\* was loaded before any login: the store holds the seven-day default
C22_Witness ==
  /\ lastRet.op = "load" /\ lastRet.res = "LoadedNew" /\ logins = 0
  /\ prefs.WGPublicKey = InitKey
  /\ prefs.WGKeysRegenInerval = DefaultWGKeysInterval

====
